---- MODULE Spec2Model ----
(***************************************************************************)
(* State-machine model of the uran_fast_rtc WebRTC handler:                *)
(*   src/uran_fast_rtc/fast_rtc/handlers/webrtc_handler.py (UranEchoHandler)*)
(*   src/uran_fast_rtc/fast_rtc/handlers/async_workers.py  (the workers)   *)
(*                                                                         *)
(* One handler instance (one connection).  All coroutines run on one       *)
(* asyncio event loop: an action is the code between two suspension points *)
(* (await).  Blocking I/O handed to asyncio.to_thread runs on a thread of  *)
(* its own and is a separate action: it is never interrupted by the        *)
(* cancellation of the task that awaits it.                                *)
(*                                                                         *)
(* Time is not modelled.  A timeout may expire only while the thing it     *)
(* waits for is held up by thread I/O, by a worker that no longer runs, or *)
(* by input that keeps arriving; event-loop steps are fast against every   *)
(* timeout of the code.                                                    *)
(***************************************************************************)
EXTENDS Integers, Sequences, FiniteSets, TLC

\* ------------------------------------------------------------------ bounds
\* Inputs of one connection.
MaxAudioFrames == 2
MaxVideoFrames == 3
MaxControl == 4
MaxCaptureTicks == 2
\* Inputs (frames, control messages, capture timer ticks) of one connection
\* when all three pipelines are exercised together.
MaxInputs == 5
\* Inputs of one connection when one pipeline is exercised alone.
MaxPipelineInputs == 6
\* AsyncTaskConstants is imported by the handler but its values are not part
\* of the sources; the model fixes small capacities.
VIDEO_RECORDING_QUEUE_SIZE == 1
AUDIO_RECORDING_QUEUE_SIZE == 1
FRAME_SAVE_QUEUE_SIZE == 1
VIDEO_BATCH_SIZE == 1
\* Clock ticks per second, the last tick of the clock, and the most recording
\* sessions whose paths are compared.
TicksPerSecond == 2
MaxClock == 3
MaxSessions == 2
\* The websockets that connect to the chat server and the calls their
\* handlers make on the connection manager.
MaxSockets == 2
MaxCalls == 4

\* ------------------------------------------------------------------- state
VARIABLES
    \* UranEchoHandler fields (audio)
    mode, recorded_audio_frames, replay_index, audio_queue,
    audio_recording_queue, audio_recording_worker_task,
    \* performance counters (self.stats)
    stats,
    \* tasks created with asyncio.create_task (audio)
    audio_workers, audio_stops,
    \* UranEchoHandler fields (video recording); video_queue is the live echo
    \* queue, which video_emit (not modelled) empties
    video_resolution, video_queue, video_recording_enabled, video_writer,
    recorded_video_frames, video_recording_queue, video_recording_worker_task,
    \* cv2.VideoWriter objects and the tasks of the video pipeline
    writers, video_workers, video_stops,
    \* history: the ids of the video frames written, in the order of writing
    write_log,
    \* UranEchoHandler fields (frame capture)
    frame_capture_enabled, latest_video_frame, frame_capture_task, frame_count,
    frame_save_queue, frame_save_worker_task,
    \* the FrameSaveWorker tasks and the images they saved
    frame_workers, saved_frames,
    \* connection teardown
    shutdown_pc,
    \* inputs consumed so far and observable outputs
    audio_seq, video_seq, control_count, capture_ticks, inputs_left, emitOut,
    \* the last message the handler sent on the data channel
    channel,
    \* the exception text_receive let escape to the transport, if any
    raised,
    \* the number of resolution-change warnings video_receive has logged
    resolution_warnings,
    \* time.time(), counted in ticks of 1/TicksPerSecond second
    clock,
    \* the recording sessions started so far on any handler instance, each
    \* with the file path its start computed
    artifacts,
    \* ConnectionManager: self.clients, self.username_to_id, self.rooms, the
    \* call that holds self.lock, the calls of its coroutines, the websockets
    \* whose connection is closed, and the number of clients registered so far
    clients, username_to_id, rooms, lock, calls, closed, registered

audioVars == <<mode, recorded_audio_frames, replay_index, audio_queue,
               audio_recording_queue, audio_recording_worker_task,
               audio_workers, audio_stops, audio_seq, emitOut>>

videoVars == <<video_resolution, video_queue, video_recording_enabled,
               video_writer, recorded_video_frames, video_recording_queue,
               video_recording_worker_task, writers, video_workers,
               video_stops, video_seq, write_log>>

captureVars == <<frame_capture_enabled, latest_video_frame, frame_capture_task,
                 frame_count, frame_save_queue, frame_save_worker_task,
                 frame_workers, saved_frames, capture_ticks>>

pathVars == <<clock, artifacts>>

handlerVars == <<audioVars, videoVars, captureVars, stats, shutdown_pc,
                 control_count, inputs_left, channel, raised,
                 resolution_warnings>>

managerVars == <<clients, username_to_id, rooms, lock, calls, closed,
                 registered>>

vars == <<handlerVars, pathVars, managerVars>>

StreamMode == {"LIVE", "RECORDING", "REPLAYING"}

NoTask == 0
NoFrame == 0
NoWriter == 0
NoResolution == 0
NoVideoFrame == [id |-> 0, res |-> 0]

\* self.channel.send(json.dumps({"type": ..., "message": ...})): a status
\* message, named here by what its text says; the two stop messages of the
\* capture and video pipelines carry a count in their text.
Status(type, message) == [type |-> type, message |-> message]
CountStatus(type, message, count) ==
    [type |-> type, message |-> message, count |-> count]
\* Nothing sent yet.
NoMessage == Status("none", "none")

\* The (width, height) pairs a client sends.
Resolutions == {1, 2}

\* ---------------------------------------------------------------- helpers
\* asyncio.Queue.put_nowait on a queue of capacity cap: raises QueueFull
\* (the queue is left as it is) when the queue already holds cap items.
\* A fullness test that lets one item too many in.
QueueFull_late(q, cap) == Len(q) > cap

QueueFull(q, cap) == Len(q) >= cap

PutNowait(q, x) == Append(q, x)

\* An AudioRecordingWorker.run task.  pc: "waiting" (in wait_for(queue.get())),
\* "saving" (awaiting to_thread(_save_audio_sync)), "done", "cancelled".
\* recorded_frames is the local list of the coroutine; file is what
\* _save_audio_sync was asked to write (saved says whether it was asked).
\* heard and dropped are history: the frames received in RECORDING mode during
\* the session that created the worker, and whether one of them was dropped.
NewAudioWorker ==
    [pc |-> "waiting", recorded_frames |-> <<>>, file |-> <<>>, saved |-> FALSE,
     heard |-> <<>>, dropped |-> FALSE]

\* Task.cancel(): a task that has finished is not affected.
AudioWorkerAlive(w) == audio_workers[w].pc \in {"waiting", "saving"}

CancelAudioWorker(ws, w) ==
    IF ws[w].pc \in {"waiting", "saving"}
    THEN [ws EXCEPT ![w].pc = "cancelled", ![w].recorded_frames = <<>>]
    ELSE ws

\* A coroutine that has ended keeps no locals.
Ended(stop, how) == [stop EXCEPT !.pc = how, !.target = NoTask]

\* ------------------------------------------------------------------- Init
Constructed ==
    /\ mode = "LIVE"
    /\ recorded_audio_frames = <<>>
    /\ replay_index = 0
    /\ audio_queue = <<>>
    /\ audio_recording_queue = <<>>
    /\ audio_recording_worker_task = NoTask
    /\ stats = [video_dropped_frames |-> 0, audio_dropped_frames |-> 0,
                frame_save_dropped |-> 0]
    /\ audio_workers = <<>>
    /\ audio_stops = <<>>
    /\ video_resolution = NoResolution
    /\ video_queue = <<>>
    /\ video_recording_enabled = FALSE
    /\ video_writer = NoWriter
    /\ recorded_video_frames = 0
    /\ video_recording_queue = <<>>
    /\ video_recording_worker_task = NoTask
    /\ writers = <<>>
    /\ video_workers = <<>>
    /\ video_stops = <<>>
    /\ video_seq = 0
    /\ write_log = <<>>
    /\ frame_capture_enabled = FALSE
    /\ latest_video_frame = NoVideoFrame
    /\ frame_capture_task = NoTask
    /\ frame_count = 0
    /\ frame_save_queue = <<>>
    /\ frame_save_worker_task = NoTask
    /\ frame_workers = <<>>
    /\ saved_frames = <<>>
    /\ capture_ticks = 0
    /\ shutdown_pc = "idle"
    /\ audio_seq = 0
    /\ control_count = 0
    /\ emitOut = NoFrame
    /\ channel = NoMessage
    /\ raised = "none"
    /\ resolution_warnings = 0
    /\ clock = 0
    /\ artifacts = <<>>
    /\ clients = <<>>
    /\ username_to_id = <<>>
    /\ rooms = <<>>
    /\ lock = 0
    /\ calls = <<>>
    /\ closed = {}
    /\ registered = 0

\* One pipeline exercised alone, at most MaxPipelineInputs inputs.
InitPipeline == Constructed /\ inputs_left = MaxPipelineInputs

\* The three pipelines exercised together.
Init == Constructed /\ inputs_left = MaxInputs

\* The transport delivers frames and control messages until teardown starts.
Connected == shutdown_pc = "idle"

\* One input of the connection is consumed.
Input == inputs_left > 0 /\ inputs_left' = inputs_left - 1

\* ------------------------------------------------------------ audio path
\* UranEchoHandler.receive: the frame is numbered by its order of receipt.
receive ==
    /\ Connected
    /\ Input
    /\ audio_seq < MaxAudioFrames
    /\ LET f == audio_seq + 1 IN
       /\ audio_seq' = f
       /\ IF mode = "RECORDING"
          THEN /\ IF QueueFull(audio_recording_queue, AUDIO_RECORDING_QUEUE_SIZE)
                  THEN /\ stats' = [stats EXCEPT !.audio_dropped_frames = @ + 1]
                       /\ UNCHANGED audio_recording_queue
                       /\ audio_workers' =
                            [audio_workers EXCEPT ![Len(audio_workers)].dropped = TRUE,
                                                  ![Len(audio_workers)].heard = Append(@, f)]
                  ELSE /\ audio_recording_queue' = PutNowait(audio_recording_queue, f)
                       /\ audio_workers' =
                            [audio_workers EXCEPT ![Len(audio_workers)].heard = Append(@, f)]
                       /\ UNCHANGED stats
               /\ recorded_audio_frames' = Append(recorded_audio_frames, f)
          ELSE UNCHANGED <<audio_recording_queue, stats, recorded_audio_frames,
                           audio_workers>>
       /\ audio_queue' = Append(audio_queue, f)
    /\ UNCHANGED <<videoVars, captureVars, mode, replay_index, audio_recording_worker_task, audio_stops,
                   shutdown_pc, control_count, emitOut, channel, raised,
                   resolution_warnings, pathVars, managerVars>>

\* fastrtc.wait_for_item(self.audio_queue): the next live frame, or None when
\* none arrives within its short timeout.
WaitForItem ==
    IF audio_queue = <<>>
    THEN /\ emitOut' = NoFrame
         /\ UNCHANGED audio_queue
    ELSE /\ emitOut' = Head(audio_queue)
         /\ audio_queue' = Tail(audio_queue)

\* A replay that reads the live queue instead of the recorded buffer.
ReplayFrame_live == IF audio_queue # <<>> THEN Head(audio_queue) ELSE NoFrame

\* The frame emit returns in REPLAYING mode (Python index replay_index).
ReplayFrame == recorded_audio_frames[replay_index + 1]

\* An emit that goes on replaying silence when the buffer is exhausted.
emit_never_live ==
    /\ Connected
    /\ IF mode = "REPLAYING" /\ replay_index < Len(recorded_audio_frames)
       THEN /\ emitOut' = ReplayFrame
            /\ replay_index' = replay_index + 1
            /\ audio_queue' = <<>>
       ELSE /\ WaitForItem
            /\ UNCHANGED replay_index
    /\ UNCHANGED <<videoVars, captureVars, inputs_left, mode, recorded_audio_frames,
                   audio_recording_queue, audio_recording_worker_task, stats,
                   audio_workers, audio_stops, shutdown_pc, audio_seq,
                   control_count, channel, raised,
                   resolution_warnings, pathVars, managerVars>>

\* UranEchoHandler.emit
emit ==
    /\ Connected
    /\ IF mode = "REPLAYING"
       THEN IF replay_index < Len(recorded_audio_frames)
            THEN /\ emitOut' = ReplayFrame
                 /\ replay_index' = replay_index + 1
                 /\ audio_queue' = <<>>
                 /\ UNCHANGED <<mode, channel>>
            ELSE /\ mode' = "LIVE"
                 /\ replay_index' = 0
                 /\ channel' = Status("status", "replay_ended")
                 /\ WaitForItem
       ELSE /\ WaitForItem
            /\ UNCHANGED <<mode, replay_index, channel>>
    /\ UNCHANGED <<videoVars, captureVars, inputs_left, recorded_audio_frames, audio_recording_queue,
                   audio_recording_worker_task, stats, audio_workers, audio_stops,
                   shutdown_pc, audio_seq, control_count, raised,
                   resolution_warnings, pathVars, managerVars>>

\* A control message with this action is taken from the data channel
\* (text_receive).
Control(action) ==
    /\ Connected
    /\ Input
    /\ control_count < MaxControl
    /\ control_count' = control_count + 1

\* The data channel messages that reach no handler method, by what
\* json.loads makes of them: text that is not JSON, JSON that is not an object
\* (a number, a string, an array, null), an object without "action", an object
\* whose action is none of MessageType's control actions.
OtherMessages ==
    {"not_json", "json_not_object", "object_without_action", "unknown_action"}

\* UranEchoHandler.text_receive on such a message.  json.loads raises
\* JSONDecodeError, which is caught and logged; data.get on a value that is
\* not a dict raises AttributeError, which no except clause catches; an
\* object passes every comparison of the if chain.
text_receive(message) ==
    /\ Connected
    /\ Input
    /\ control_count < MaxControl
    /\ control_count' = control_count + 1
    /\ raised' = IF message = "json_not_object" THEN "AttributeError" ELSE raised
    /\ UNCHANGED <<audioVars, videoVars, captureVars, stats, shutdown_pc, channel,
                   resolution_warnings, pathVars, managerVars>>

\* UranEchoHandler.start_audio_recording
start_audio_recording ==
    /\ Control("start_record")
    /\ mode' = "RECORDING"
    /\ recorded_audio_frames' = <<>>
    /\ audio_workers' = Append(audio_workers, NewAudioWorker)
    /\ audio_recording_worker_task' = Len(audio_workers) + 1
    /\ channel' = Status("status", "record_started")
    /\ UNCHANGED <<videoVars, captureVars, replay_index, audio_queue, audio_recording_queue, stats,
                   audio_stops, shutdown_pc, audio_seq, emitOut, raised,
                   resolution_warnings, pathVars, managerVars>>

\* UranEchoHandler.stop_audio_recording: the stop sequence runs as a task.
\* An _stop_audio_recording_async coroutine has pc "start" (created, not yet
\* run), "drain" (in the wait-for-empty loop), "join" (in wait_for on the
\* worker task target), "done", "failed" (ended in the outer except clause),
\* or "raised" (ended by CancelledError).
NewAudioStop == [pc |-> "start", target |-> NoTask]

\* A stop_record that spawns the stop sequence whatever the mode.
stop_audio_recording_unguarded ==
    /\ Control("stop_record")
    /\ audio_stops' = Append(audio_stops, NewAudioStop)
    /\ UNCHANGED <<videoVars, captureVars, mode, recorded_audio_frames, replay_index, audio_queue,
                   audio_recording_queue, audio_recording_worker_task, stats,
                   audio_workers, shutdown_pc, audio_seq, emitOut, channel, raised,
                   resolution_warnings, pathVars, managerVars>>

stop_audio_recording ==
    /\ Control("stop_record")
    /\ IF mode # "RECORDING"
       THEN UNCHANGED audio_stops
       ELSE audio_stops' = Append(audio_stops, NewAudioStop)
    /\ UNCHANGED <<videoVars, captureVars, mode, recorded_audio_frames, replay_index, audio_queue,
                   audio_recording_queue, audio_recording_worker_task, stats,
                   audio_workers, shutdown_pc, audio_seq, emitOut, channel, raised,
                   resolution_warnings, pathVars, managerVars>>

\* The status message that ends _stop_audio_recording_async.
RecordStopped == Status("status", "record_stopped_replaying")

\* _stop_audio_recording_async, from its entry to the drain loop.
AudioStopStart(t) ==
    /\ audio_stops[t].pc = "start"
    /\ IF mode # "RECORDING"
       THEN /\ audio_stops' = [audio_stops EXCEPT ![t].pc = "done"]
            /\ UNCHANGED <<mode, replay_index>>
       ELSE /\ mode' = "REPLAYING"
            /\ replay_index' = 0
            /\ audio_stops' = [audio_stops EXCEPT ![t].pc = "drain"]
    /\ UNCHANGED <<videoVars, captureVars, inputs_left, recorded_audio_frames, audio_queue, audio_recording_queue,
                   audio_recording_worker_task, stats, audio_workers,
                   shutdown_pc, audio_seq, control_count, emitOut, channel, raised,
                   resolution_warnings, pathVars, managerVars>>

\* The drain loop is left when the queue is empty, or by its timeout: the
\* queue stays non-empty that long only if no worker is waiting on it or
\* frames keep arriving.
AudioDrainTimeout ==
    /\ audio_recording_queue # <<>>
    /\ \/ \A w \in DOMAIN audio_workers : audio_workers[w].pc # "waiting"
       \/ mode = "RECORDING"

AudioStopDrain(t) ==
    /\ audio_stops[t].pc = "drain"
    /\ audio_recording_queue = <<>> \/ AudioDrainTimeout
    /\ IF audio_recording_worker_task # NoTask
       THEN /\ audio_stops' = [audio_stops EXCEPT ![t].pc = "join",
                                                  ![t].target = audio_recording_worker_task]
            /\ UNCHANGED channel
       ELSE /\ audio_stops' = [audio_stops EXCEPT ![t].pc = "done"]
            /\ channel' = RecordStopped
    /\ UNCHANGED <<videoVars, captureVars, inputs_left, mode, recorded_audio_frames, replay_index, audio_queue,
                   audio_recording_queue, audio_recording_worker_task, stats,
                   audio_workers, shutdown_pc, audio_seq, control_count, emitOut, raised,
                   resolution_warnings, pathVars, managerVars>>

\* wait_for(worker, QUEUE_GET_TIMEOUT + 2.0) returns: the worker finished.
AudioStopJoined(t) ==
    /\ audio_stops[t].pc = "join"
    /\ audio_workers[audio_stops[t].target].pc = "done"
    /\ audio_recording_worker_task' = NoTask
    /\ audio_stops' = [audio_stops EXCEPT ![t] = Ended(@, "done")]
    /\ channel' = RecordStopped
    /\ UNCHANGED <<videoVars, captureVars, inputs_left, mode, recorded_audio_frames, replay_index, audio_queue,
                   audio_recording_queue, stats, audio_workers,
                   shutdown_pc, audio_seq, control_count, emitOut, raised,
                   resolution_warnings, pathVars, managerVars>>

\* The awaited worker was cancelled by another stop sequence: wait_for raises
\* CancelledError, which no "except Exception" of the coroutine catches.
AudioStopCancelled(t) ==
    /\ audio_stops[t].pc = "join"
    /\ audio_workers[audio_stops[t].target].pc = "cancelled"
    /\ audio_stops' = [audio_stops EXCEPT ![t] = Ended(@, "raised")]
    /\ UNCHANGED <<videoVars, captureVars, inputs_left, mode, recorded_audio_frames, replay_index, audio_queue,
                   audio_recording_queue, audio_recording_worker_task, stats,
                   audio_workers, shutdown_pc, audio_seq, control_count, emitOut, channel, raised,
                   resolution_warnings, pathVars, managerVars>>

\* wait_for times out: it cancels the awaited worker and raises TimeoutError;
\* the handler then cancels self.audio_recording_worker_task (whatever task
\* that field names by now; None raises AttributeError, caught by the outer
\* except) and clears the field.  The worker outlives the timeout only in its
\* save thread or while a recording keeps feeding the queue.
AudioStopTimeout(t) ==
    /\ audio_stops[t].pc = "join"
    /\ LET w == audio_stops[t].target IN
       /\ AudioWorkerAlive(w)
       /\ audio_workers[w].pc = "saving" \/ mode = "RECORDING"
       /\ audio_workers' =
            IF audio_recording_worker_task = NoTask
            THEN CancelAudioWorker(audio_workers, w)
            ELSE CancelAudioWorker(CancelAudioWorker(audio_workers, w),
                                   audio_recording_worker_task)
    /\ audio_recording_worker_task' = NoTask
    /\ audio_stops' = [audio_stops EXCEPT
            ![t] = Ended(@, IF audio_recording_worker_task = NoTask
                            THEN "failed" ELSE "done")]
    /\ channel' = IF audio_recording_worker_task = NoTask
                  THEN channel ELSE RecordStopped
    /\ UNCHANGED <<videoVars, captureVars, inputs_left, mode, recorded_audio_frames, replay_index, audio_queue,
                   audio_recording_queue, stats, shutdown_pc, audio_seq,
                   control_count, emitOut, raised,
                   resolution_warnings, pathVars, managerVars>>

\* AudioRecordingWorker.run: queue.get() returns a frame.
AudioWorkerGet(w) ==
    /\ audio_workers[w].pc = "waiting"
    /\ audio_recording_queue # <<>>
    /\ audio_workers' = [audio_workers EXCEPT
            ![w].recorded_frames = Append(@, Head(audio_recording_queue))]
    /\ audio_recording_queue' = Tail(audio_recording_queue)
    /\ UNCHANGED <<videoVars, captureVars, inputs_left, mode, recorded_audio_frames, replay_index, audio_queue,
                   audio_recording_worker_task, stats, audio_stops,
                   shutdown_pc, audio_seq, control_count, emitOut, channel, raised,
                   resolution_warnings, pathVars, managerVars>>

\* _save_audio_sync(frames, ...): np.concatenate(frames) written to the file.
SaveAudioSync(frames) == frames

\* AudioRecordingWorker.run: no frame for QUEUE_GET_TIMEOUT seconds ends the
\* loop; a non-empty list is handed to the save thread.
AudioWorkerTimeout(w) ==
    /\ audio_workers[w].pc = "waiting"
    /\ audio_recording_queue = <<>>
    /\ IF audio_workers[w].recorded_frames # <<>>
       THEN audio_workers' = [audio_workers EXCEPT
                ![w].pc = "saving",
                ![w].saved = TRUE,
                ![w].file = SaveAudioSync(audio_workers[w].recorded_frames)]
       ELSE audio_workers' = [audio_workers EXCEPT ![w].pc = "done"]
    /\ UNCHANGED <<videoVars, captureVars, inputs_left, mode, recorded_audio_frames, replay_index, audio_queue,
                   audio_recording_queue, audio_recording_worker_task, stats,
                   audio_stops, shutdown_pc, audio_seq, control_count, emitOut, channel, raised,
                   resolution_warnings, pathVars, managerVars>>

\* The save thread returns and the worker task finishes.
AudioWorkerSaved(w) ==
    /\ audio_workers[w].pc = "saving"
    /\ audio_workers' = [audio_workers EXCEPT ![w].pc = "done",
                                              ![w].recorded_frames = <<>>]
    /\ UNCHANGED <<videoVars, captureVars, inputs_left, mode, recorded_audio_frames, replay_index, audio_queue,
                   audio_recording_queue, audio_recording_worker_task, stats,
                   audio_stops, shutdown_pc, audio_seq, control_count, emitOut, channel, raised,
                   resolution_warnings, pathVars, managerVars>>

AudioNext ==
    \/ receive
    \/ emit
    \/ start_audio_recording
    \/ stop_audio_recording
    \/ \E t \in DOMAIN audio_stops : AudioStopStart(t)
    \/ \E t \in DOMAIN audio_stops : AudioStopDrain(t)
    \/ \E t \in DOMAIN audio_stops : AudioStopJoined(t)
    \/ \E t \in DOMAIN audio_stops : AudioStopCancelled(t)
    \/ \E t \in DOMAIN audio_stops : AudioStopTimeout(t)
    \/ \E w \in DOMAIN audio_workers : AudioWorkerGet(w)
    \/ \E w \in DOMAIN audio_workers : AudioWorkerTimeout(w)
    \/ \E w \in DOMAIN audio_workers : AudioWorkerSaved(w)

\* ------------------------------------------------------------ video path
\* A video frame: its number in order of receipt and its resolution.
VideoFrame(n, res) == [id |-> n, res |-> res]

\* A cv2.VideoWriter: opened (isOpened() after construction), released, the
\* frames written to its file, and as history the number of frames received
\* while its recording was enabled and the number of the last frame received
\* before it was created.
NewWriter(ok) ==
    [opened |-> ok, released |-> FALSE, file |-> <<>>, received |-> 0,
     since |-> video_seq]

\* A VideoRecordingWorker.run task.  pc: "loop" (at the loop head or in the
\* poll sleep), "writing" (awaiting to_thread(_write_frames_sync)), "done",
\* "cancelled".  batch holds the frames the write thread has still to write:
\* the thread runs on whether or not the task has been cancelled.
NewVideoWorker(wr, res) ==
    [pc |-> "loop", batch |-> <<>>, writer |-> wr, resolution |-> res]

VideoWorkerAlive(w) == video_workers[w].pc \in {"loop", "writing"}

CancelVideoWorker(ws, w) ==
    IF ws[w].pc \in {"loop", "writing"}
    THEN [ws EXCEPT ![w].pc = "cancelled"]
    ELSE ws

\* UranEchoHandler.video_receive
video_receive(res) ==
    /\ Connected
    /\ Input
    /\ video_seq < MaxVideoFrames
    /\ LET frame == VideoFrame(video_seq + 1, res) IN
       /\ video_seq' = video_seq + 1
       /\ video_resolution' = res
       /\ resolution_warnings' =
            IF video_resolution # res /\ video_resolution # NoResolution
            THEN resolution_warnings + 1
            ELSE resolution_warnings
       /\ IF video_recording_enabled
          THEN /\ IF QueueFull(video_recording_queue, VIDEO_RECORDING_QUEUE_SIZE)
                  THEN /\ stats' = [stats EXCEPT !.video_dropped_frames = @ + 1]
                       /\ UNCHANGED <<video_recording_queue, recorded_video_frames>>
                  ELSE /\ video_recording_queue' = PutNowait(video_recording_queue, frame)
                       /\ recorded_video_frames' = recorded_video_frames + 1
                       /\ UNCHANGED stats
               /\ writers' = IF video_writer # NoWriter
                             THEN [writers EXCEPT ![video_writer].received = @ + 1]
                             ELSE writers
          ELSE UNCHANGED <<video_recording_queue, recorded_video_frames, stats, writers>>
       /\ latest_video_frame' =
            IF frame_capture_enabled THEN frame ELSE latest_video_frame
       /\ video_queue' = Append(video_queue, frame)
    /\ UNCHANGED <<audioVars, frame_capture_enabled, frame_capture_task,
                   frame_count, frame_save_queue, frame_save_worker_task,
                   frame_workers, saved_frames, capture_ticks,
                   video_recording_enabled, video_writer,
                   video_recording_worker_task, video_workers, video_stops,
                   shutdown_pc, control_count, write_log, channel, raised, pathVars, managerVars>>

\* A start_video_recording without the test of video_recording_enabled.
start_video_recording_again(ok) ==
    /\ Control("start_video_recording")
    /\ IF video_resolution = NoResolution
       THEN /\ UNCHANGED <<video_writer, writers, video_recording_enabled,
                           recorded_video_frames, video_workers,
                           video_recording_worker_task>>
            /\ channel' = IF video_recording_enabled
                          THEN channel
                          ELSE Status("video_recording_status", "not_ready")
       ELSE /\ writers' = Append(writers, NewWriter(ok))
            /\ video_writer' = Len(writers) + 1
            /\ IF ok
               THEN /\ video_recording_enabled' = TRUE
                    /\ recorded_video_frames' = 0
                    /\ video_workers' = Append(video_workers,
                           NewVideoWorker(Len(writers) + 1, video_resolution))
                    /\ video_recording_worker_task' = Len(video_workers) + 1
                    /\ channel' = Status("video_recording_status", "video_started")
               ELSE /\ UNCHANGED <<video_recording_enabled, recorded_video_frames,
                                   video_workers, video_recording_worker_task>>
                    /\ channel' = Status("video_recording_status", "start_failed")
    /\ UNCHANGED <<audioVars, captureVars, video_resolution, video_queue,
                   video_recording_queue, video_stops, video_seq, stats,
                   shutdown_pc, write_log, raised,
                   resolution_warnings, pathVars, managerVars>>

\* A start_video_recording that sets the flag before it tests isOpened().
start_video_recording_enabling(ok) ==
    /\ Control("start_video_recording")
    /\ IF video_recording_enabled \/ video_resolution = NoResolution
       THEN /\ UNCHANGED <<video_writer, writers, video_recording_enabled,
                           recorded_video_frames, video_workers,
                           video_recording_worker_task>>
            /\ channel' = IF video_recording_enabled
                          THEN channel
                          ELSE Status("video_recording_status", "not_ready")
       ELSE /\ writers' = Append(writers, NewWriter(ok))
            /\ video_writer' = Len(writers) + 1
            /\ IF ok
               THEN /\ video_recording_enabled' = TRUE
                    /\ recorded_video_frames' = 0
                    /\ video_workers' = Append(video_workers,
                           NewVideoWorker(Len(writers) + 1, video_resolution))
                    /\ video_recording_worker_task' = Len(video_workers) + 1
                    /\ channel' = Status("video_recording_status", "video_started")
               ELSE /\ video_recording_enabled' = TRUE
                    /\ UNCHANGED <<recorded_video_frames, video_workers,
                                   video_recording_worker_task>>
                    /\ channel' = Status("video_recording_status", "start_failed")
    /\ UNCHANGED <<audioVars, captureVars, video_resolution, video_queue,
                   video_recording_queue, video_stops, video_seq, stats,
                   shutdown_pc, write_log, raised,
                   resolution_warnings, pathVars, managerVars>>

\* UranEchoHandler.start_video_recording; ok says whether cv2 opens the file.
start_video_recording(ok) ==
    /\ Control("start_video_recording")
    /\ IF video_recording_enabled \/ video_resolution = NoResolution
       THEN /\ UNCHANGED <<video_writer, writers, video_recording_enabled,
                           recorded_video_frames, video_workers,
                           video_recording_worker_task>>
            /\ channel' = IF video_recording_enabled
                          THEN channel
                          ELSE Status("video_recording_status", "not_ready")
       ELSE /\ writers' = Append(writers, NewWriter(ok))
            /\ video_writer' = Len(writers) + 1
            /\ IF ok
               THEN /\ video_recording_enabled' = TRUE
                    /\ recorded_video_frames' = 0
                    /\ video_workers' = Append(video_workers,
                           NewVideoWorker(Len(writers) + 1, video_resolution))
                    /\ video_recording_worker_task' = Len(video_workers) + 1
                    /\ channel' = Status("video_recording_status", "video_started")
               ELSE /\ UNCHANGED <<video_recording_enabled, recorded_video_frames,
                                   video_workers, video_recording_worker_task>>
                    /\ channel' = Status("video_recording_status", "start_failed")
    /\ UNCHANGED <<audioVars, captureVars, video_resolution, video_queue,
                   video_recording_queue, video_stops, video_seq, stats,
                   shutdown_pc, write_log, raised,
                   resolution_warnings, pathVars, managerVars>>

\* An _stop_video_recording_async coroutine: pc "start", "drain", "join" (in
\* wait_for on the worker task target), "releasing" (awaiting
\* to_thread(release) of writer rel), "done", "failed", "raised".
NewVideoStop == [pc |-> "start", target |-> NoTask, rel |-> NoWriter]

\* UranEchoHandler.stop_video_recording
stop_video_recording ==
    /\ Control("stop_video_recording")
    /\ IF ~video_recording_enabled
       THEN UNCHANGED video_stops
       ELSE video_stops' = Append(video_stops, NewVideoStop)
    /\ UNCHANGED <<audioVars, captureVars, video_resolution, video_queue,
                   video_recording_enabled, video_writer, recorded_video_frames,
                   video_recording_queue, video_recording_worker_task, writers,
                   video_workers, video_seq, stats, shutdown_pc, write_log, channel, raised,
                   resolution_warnings, pathVars, managerVars>>

\* _stop_video_recording_async, from its entry to the drain loop.
VideoStopStart(t) ==
    /\ video_stops[t].pc = "start"
    /\ IF ~video_recording_enabled
       THEN /\ video_stops' = [video_stops EXCEPT ![t].pc = "done"]
            /\ UNCHANGED video_recording_enabled
       ELSE /\ video_recording_enabled' = FALSE
            /\ video_stops' = [video_stops EXCEPT ![t].pc = "drain"]
    /\ UNCHANGED <<audioVars, captureVars, inputs_left, video_resolution, video_queue, video_writer,
                   recorded_video_frames, video_recording_queue,
                   video_recording_worker_task, writers, video_workers,
                   video_seq, stats, shutdown_pc, control_count, write_log, channel, raised,
                   resolution_warnings, pathVars, managerVars>>

\* Step 4 of the stop sequence, entered without suspension from step 3: the
\* The status message that ends _stop_video_recording_async; its text
\* carries recorded_video_frames.
VideoStopped ==
    CountStatus("video_recording_status", "video_stopped", recorded_video_frames)

\* release of self.video_writer is handed to a thread, if there is a writer.
ReleaseWriter(stop) ==
    IF video_writer # NoWriter
    THEN [stop EXCEPT !.pc = "releasing", !.rel = video_writer, !.target = NoTask]
    ELSE Ended(stop, "done")

\* A drain loop without its timeout.
VideoDrainTimeout_never == FALSE

\* The drain loop is left when the queue is empty, or by its timeout: the
\* queue stays non-empty that long only if no worker is at its loop head or
\* frames keep arriving.
VideoDrainTimeout ==
    /\ video_recording_queue # <<>>
    /\ \/ \A w \in DOMAIN video_workers : video_workers[w].pc # "loop"
       \/ video_recording_enabled

VideoStopDrain(t) ==
    /\ video_stops[t].pc = "drain"
    /\ video_recording_queue = <<>> \/ VideoDrainTimeout
    /\ IF video_recording_worker_task # NoTask
       THEN video_stops' = [video_stops EXCEPT
                ![t].pc = "join", ![t].target = video_recording_worker_task]
       ELSE video_stops' = [video_stops EXCEPT ![t] = ReleaseWriter(@)]
    /\ channel' = IF video_stops'[t].pc = "done" THEN VideoStopped ELSE channel
    /\ UNCHANGED <<audioVars, captureVars, inputs_left, video_resolution, video_queue,
                   video_recording_enabled, video_writer, recorded_video_frames,
                   video_recording_queue, video_recording_worker_task, writers,
                   video_workers, video_seq, stats, shutdown_pc, control_count, write_log, raised,
                   resolution_warnings, pathVars, managerVars>>

\* wait_for(worker, 2.0) returns: the worker finished.
VideoStopJoined(t) ==
    /\ video_stops[t].pc = "join"
    /\ video_workers[video_stops[t].target].pc = "done"
    /\ video_recording_worker_task' = NoTask
    /\ video_stops' = [video_stops EXCEPT ![t] = ReleaseWriter(@)]
    /\ channel' = IF video_stops'[t].pc = "done" THEN VideoStopped ELSE channel
    /\ UNCHANGED <<audioVars, captureVars, inputs_left, video_resolution, video_queue,
                   video_recording_enabled, video_writer, recorded_video_frames,
                   video_recording_queue, writers, video_workers, video_seq,
                   stats, shutdown_pc, control_count, write_log, raised,
                   resolution_warnings, pathVars, managerVars>>

\* The awaited worker was cancelled by another stop sequence: CancelledError
\* ends the coroutine before the writer is released.
VideoStopCancelled(t) ==
    /\ video_stops[t].pc = "join"
    /\ video_workers[video_stops[t].target].pc = "cancelled"
    /\ video_stops' = [video_stops EXCEPT ![t] = Ended(@, "raised")]
    /\ UNCHANGED <<audioVars, captureVars, inputs_left, video_resolution, video_queue,
                   video_recording_enabled, video_writer, recorded_video_frames,
                   video_recording_queue, video_recording_worker_task, writers,
                   video_workers, video_seq, stats, shutdown_pc, control_count, write_log, channel, raised,
                   resolution_warnings, pathVars, managerVars>>

\* wait_for times out: it cancels the awaited worker; the handler cancels
\* self.video_recording_worker_task (None raises AttributeError, which ends
\* the coroutine in its outer except clause) and clears the field.  The
\* worker outlives the timeout only in its write thread or while the enabled
\* flag is set again.
VideoStopTimeout(t) ==
    /\ video_stops[t].pc = "join"
    /\ LET w == video_stops[t].target IN
       /\ VideoWorkerAlive(w)
       /\ video_workers[w].pc = "writing" \/ video_recording_enabled
       /\ video_workers' =
            IF video_recording_worker_task = NoTask
            THEN CancelVideoWorker(video_workers, w)
            ELSE CancelVideoWorker(CancelVideoWorker(video_workers, w),
                                   video_recording_worker_task)
    /\ video_recording_worker_task' = NoTask
    /\ video_stops' = [video_stops EXCEPT
            ![t] = IF video_recording_worker_task = NoTask
                   THEN Ended(@, "failed")
                   ELSE ReleaseWriter(@)]
    /\ channel' = IF video_stops'[t].pc = "done" THEN VideoStopped ELSE channel
    /\ UNCHANGED <<audioVars, captureVars, inputs_left, video_resolution, video_queue,
                   video_recording_enabled, video_writer, recorded_video_frames,
                   video_recording_queue, writers, video_seq, stats,
                   shutdown_pc, control_count, write_log, raised,
                   resolution_warnings, pathVars, managerVars>>

\* The release thread returns: the writer is released and the field cleared.
VideoStopReleased(t) ==
    /\ video_stops[t].pc = "releasing"
    /\ writers' = [writers EXCEPT ![video_stops[t].rel].released = TRUE]
    /\ video_writer' = NoWriter
    /\ video_stops' = [video_stops EXCEPT ![t] = [Ended(@, "done") EXCEPT !.rel = NoWriter]]
    /\ channel' = VideoStopped
    /\ UNCHANGED <<audioVars, captureVars, inputs_left, video_resolution, video_queue,
                   video_recording_enabled, recorded_video_frames,
                   video_recording_queue, video_recording_worker_task,
                   video_workers, video_seq, stats, shutdown_pc, control_count, write_log, raised,
                   resolution_warnings, pathVars, managerVars>>

\* The first n items of a queue (n get_nowait calls in a row).
Take(q, n) == SubSeq(q, 1, n)
Drop(q, n) == SubSeq(q, n + 1, Len(q))
Min(a, b) == IF a < b THEN a ELSE b

\* The batch one pass of the worker's for loop takes from the queue.
FramesBatch(q) == Take(q, Min(VIDEO_BATCH_SIZE, Len(q)))

\* VideoRecordingWorker.run: a non-empty batch is handed to the write thread.
VideoWorkerBatch(w) ==
    /\ video_workers[w].pc = "loop"
    /\ video_recording_queue # <<>>
    /\ video_workers' = [video_workers EXCEPT
            ![w].pc = "writing", ![w].batch = FramesBatch(video_recording_queue)]
    /\ video_recording_queue' =
            Drop(video_recording_queue, Len(FramesBatch(video_recording_queue)))
    /\ UNCHANGED <<audioVars, captureVars, inputs_left, video_resolution, video_queue,
                   video_recording_enabled, video_writer, recorded_video_frames,
                   video_recording_worker_task, writers, video_stops, video_seq,
                   stats, shutdown_pc, control_count, write_log, channel, raised,
                   resolution_warnings, pathVars, managerVars>>

\* VideoRecordingWorker.run: the loop condition fails.
VideoWorkerExit(w) ==
    /\ video_workers[w].pc = "loop"
    /\ ~video_recording_enabled
    /\ video_recording_queue = <<>>
    /\ video_workers' = [video_workers EXCEPT ![w].pc = "done"]
    /\ UNCHANGED <<audioVars, captureVars, inputs_left, video_resolution, video_queue,
                   video_recording_enabled, video_writer, recorded_video_frames,
                   video_recording_queue, video_recording_worker_task, writers,
                   video_stops, video_seq, stats, shutdown_pc, control_count, write_log, channel, raised,
                   resolution_warnings, pathVars, managerVars>>

\* A write that leaves the frame at the size it arrived with.
WriteFrame_unresized(wr, frame, resolution) ==
    IF wr.released
    THEN wr
    ELSE [wr EXCEPT !.file = Append(@, [id |-> frame.id, res |-> frame.res])]

\* _write_frames_sync, one frame: the frame is resized to the resolution the
\* worker was given and written; a released writer writes nothing.
WriteFrame(wr, frame, resolution) ==
    IF wr.released
    THEN wr
    ELSE [wr EXCEPT !.file = Append(@, [id |-> frame.id, res |-> resolution])]

\* The write thread writes the next frame of its batch; after the last one
\* it returns and the worker, unless cancelled meanwhile, loops.
VideoThreadWrite(w) ==
    /\ video_workers[w].batch # <<>>
    /\ LET wk == video_workers[w] IN
       /\ writers' = [writers EXCEPT
                ![wk.writer] = WriteFrame(@, Head(wk.batch), wk.resolution)]
       /\ video_workers' = [video_workers EXCEPT
                ![w].batch = Tail(wk.batch),
                ![w].pc = IF Tail(wk.batch) = <<>> /\ wk.pc = "writing"
                          THEN "loop" ELSE wk.pc]
    /\ write_log' = IF writers[video_workers[w].writer].released
                     THEN write_log
                     ELSE Append(write_log, Head(video_workers[w].batch).id)
    /\ UNCHANGED <<audioVars, captureVars, inputs_left, video_resolution, video_queue,
                   video_recording_enabled, video_writer, recorded_video_frames,
                   video_recording_queue, video_recording_worker_task,
                   video_stops, video_seq, stats, shutdown_pc, control_count, channel, raised,
                   resolution_warnings, pathVars, managerVars>>

\* A failed write that ends the write thread's batch.
VideoThreadWriteFails_abort(w) ==
    /\ video_workers[w].batch # <<>>
    /\ video_workers' = [video_workers EXCEPT
            ![w].batch = <<>>,
            ![w].pc = IF video_workers[w].pc = "writing" THEN "done" ELSE @]
    /\ UNCHANGED <<audioVars, captureVars, inputs_left, video_resolution, video_queue,
                   video_recording_enabled, video_writer, recorded_video_frames,
                   video_recording_queue, video_recording_worker_task, writers,
                   video_stops, video_seq, stats, shutdown_pc, control_count,
                   write_log, channel, raised, resolution_warnings, pathVars, managerVars>>

\* _write_frames_sync, one frame whose resize or write raises: the exception
\* is caught and logged inside the for loop, written is not incremented and
\* the loop goes on with the next frame of the batch.
VideoThreadWriteFails(w) ==
    /\ video_workers[w].batch # <<>>
    /\ LET wk == video_workers[w] IN
       video_workers' = [video_workers EXCEPT
            ![w].batch = Tail(wk.batch),
            ![w].pc = IF Tail(wk.batch) = <<>> /\ wk.pc = "writing"
                      THEN "loop" ELSE wk.pc]
    /\ UNCHANGED <<audioVars, captureVars, inputs_left, video_resolution, video_queue,
                   video_recording_enabled, video_writer, recorded_video_frames,
                   video_recording_queue, video_recording_worker_task, writers,
                   video_stops, video_seq, stats, shutdown_pc, control_count,
                   write_log, channel, raised, resolution_warnings, pathVars, managerVars>>

VideoNext ==
    \/ \E res \in Resolutions : video_receive(res)
    \/ \E ok \in BOOLEAN : start_video_recording(ok)
    \/ stop_video_recording
    \/ \E t \in DOMAIN video_stops : VideoStopStart(t)
    \/ \E t \in DOMAIN video_stops : VideoStopDrain(t)
    \/ \E t \in DOMAIN video_stops : VideoStopJoined(t)
    \/ \E t \in DOMAIN video_stops : VideoStopCancelled(t)
    \/ \E t \in DOMAIN video_stops : VideoStopTimeout(t)
    \/ \E t \in DOMAIN video_stops : VideoStopReleased(t)
    \/ \E w \in DOMAIN video_workers : VideoWorkerBatch(w)
    \/ \E w \in DOMAIN video_workers : VideoWorkerExit(w)
    \/ \E w \in DOMAIN video_workers : VideoThreadWrite(w)

\* -------------------------------------------------------- frame capture
\* A FrameSaveWorker.run task.  pc: "loop" (in wait_for(queue.get()) or at
\* the loop head), "saving" (awaiting to_thread(_save_frame_sync) of frame
\* under sequence number number), "done".  path is the filepath the worker was
\* started with.
NewFrameWorker(path) ==
    [pc |-> "loop", frame |-> NoVideoFrame, number |-> 0, path |-> path]

\* A start_frame_capture that does not test the resolution.
start_frame_capture_unchecked ==
    /\ Control("start_frame_capture")
    /\ IF frame_capture_enabled
       THEN UNCHANGED <<frame_capture_enabled, frame_count, frame_workers,
                        frame_save_worker_task, frame_capture_task, channel>>
       ELSE /\ frame_capture_enabled' = TRUE
            /\ frame_count' = 0
            /\ frame_workers' = Append(frame_workers,
                                       NewFrameWorker(Len(frame_workers) + 1))
            /\ frame_save_worker_task' = Len(frame_workers) + 1
            /\ frame_capture_task' = Len(frame_workers) + 1
            /\ channel' = Status("frame_capture_status", "capture_started")
    /\ UNCHANGED <<audioVars, videoVars, latest_video_frame, frame_save_queue,
                   saved_frames, capture_ticks, stats, shutdown_pc, raised,
                   resolution_warnings, pathVars, managerVars>>

\* UranEchoHandler.start_frame_capture
start_frame_capture ==
    /\ Control("start_frame_capture")
    /\ IF frame_capture_enabled \/ video_resolution = NoResolution
       THEN /\ UNCHANGED <<frame_capture_enabled, frame_count, frame_workers,
                           frame_save_worker_task, frame_capture_task>>
            /\ channel' = IF frame_capture_enabled
                          THEN channel
                          ELSE Status("frame_capture_status", "not_ready")
       ELSE /\ frame_capture_enabled' = TRUE
            /\ frame_count' = 0
            /\ frame_workers' = Append(frame_workers,
                                       NewFrameWorker(Len(frame_workers) + 1))
            /\ frame_save_worker_task' = Len(frame_workers) + 1
            /\ frame_capture_task' = Len(frame_workers) + 1
            /\ channel' = Status("frame_capture_status", "capture_started")
    /\ UNCHANGED <<audioVars, videoVars, latest_video_frame, frame_save_queue,
                   saved_frames, capture_ticks, stats, shutdown_pc, raised,
                   resolution_warnings, pathVars, managerVars>>

\* The body of stop_frame_capture after its guard: the flag is cleared and
\* the loop task cancelled; the save worker is left to end by itself.
StopFrameCapture ==
    /\ frame_capture_enabled' = FALSE
    /\ frame_capture_task' = NoTask
    /\ channel' = CountStatus("frame_capture_status", "capture_stopped", frame_count)

\* UranEchoHandler.stop_frame_capture
stop_frame_capture ==
    /\ Control("stop_frame_capture")
    /\ IF ~frame_capture_enabled
       THEN UNCHANGED <<frame_capture_enabled, frame_capture_task, channel>>
       ELSE StopFrameCapture
    /\ UNCHANGED <<audioVars, videoVars, latest_video_frame, frame_count,
                   frame_save_queue, frame_save_worker_task, frame_workers,
                   saved_frames, capture_ticks, stats, shutdown_pc, raised,
                   resolution_warnings, pathVars, managerVars>>

\* UranEchoHandler.frame_capture_loop: the sleep of FRAME_CAPTURE_INTERVAL
\* seconds ends and the cached frame, if any, is queued for saving.
frame_capture_loop ==
    /\ frame_capture_task # NoTask
    /\ Input
    /\ capture_ticks < MaxCaptureTicks
    /\ capture_ticks' = capture_ticks + 1
    /\ IF latest_video_frame = NoVideoFrame
       THEN UNCHANGED <<frame_save_queue, stats>>
       ELSE IF QueueFull(frame_save_queue, FRAME_SAVE_QUEUE_SIZE)
            THEN /\ stats' = [stats EXCEPT !.frame_save_dropped = @ + 1]
                 /\ UNCHANGED frame_save_queue
            ELSE /\ frame_save_queue' = PutNowait(frame_save_queue, latest_video_frame)
                 /\ UNCHANGED stats
    /\ UNCHANGED <<audioVars, videoVars, frame_capture_enabled,
                   latest_video_frame, frame_capture_task, frame_count,
                   frame_save_worker_task, frame_workers, saved_frames,
                   shutdown_pc, control_count, channel, raised,
                   resolution_warnings, pathVars, managerVars>>

\* FrameSaveWorker.run: queue.get() returns a frame, which is handed to the
\* save thread together with the current value of the handler's counter.
FrameWorkerGet(w) ==
    /\ frame_workers[w].pc = "loop"
    /\ frame_save_queue # <<>>
    /\ frame_workers' = [frame_workers EXCEPT
            ![w].pc = "saving",
            ![w].frame = Head(frame_save_queue),
            ![w].number = frame_count]
    /\ frame_save_queue' = Tail(frame_save_queue)
    /\ UNCHANGED <<audioVars, videoVars, frame_capture_enabled,
                   latest_video_frame, frame_capture_task, frame_count,
                   frame_save_worker_task, saved_frames, capture_ticks, stats,
                   shutdown_pc, control_count, inputs_left, channel, raised,
                   resolution_warnings, pathVars, managerVars>>

\* _save_frame_sync: the image is saved under the worker's filepath (the
\* name with the sequence number is only logged).
SaveFrameSync(wk) == [frame |-> wk.frame, number |-> wk.number, path |-> wk.path]

\* The save thread returns; the worker increments the handler's counter.
FrameWorkerSaved(w) ==
    /\ frame_workers[w].pc = "saving"
    /\ saved_frames' = Append(saved_frames, SaveFrameSync(frame_workers[w]))
    /\ frame_count' = frame_count + 1
    /\ frame_workers' = [frame_workers EXCEPT ![w].pc = "loop"]
    /\ UNCHANGED <<audioVars, videoVars, frame_capture_enabled,
                   latest_video_frame, frame_capture_task, frame_save_queue,
                   frame_save_worker_task, capture_ticks, stats, shutdown_pc,
                   control_count, inputs_left, channel, raised,
                   resolution_warnings, pathVars, managerVars>>

\* FrameSaveWorker.run: the loop condition fails.
FrameWorkerExit(w) ==
    /\ frame_workers[w].pc = "loop"
    /\ ~frame_capture_enabled
    /\ frame_save_queue = <<>>
    /\ frame_workers' = [frame_workers EXCEPT ![w].pc = "done"]
    /\ UNCHANGED <<audioVars, videoVars, frame_capture_enabled,
                   latest_video_frame, frame_capture_task, frame_count,
                   frame_save_queue, frame_save_worker_task, saved_frames,
                   capture_ticks, stats, shutdown_pc, control_count, inputs_left, channel, raised,
                   resolution_warnings, pathVars, managerVars>>

CaptureNext ==
    \/ start_frame_capture
    \/ stop_frame_capture
    \/ frame_capture_loop
    \/ \E w \in DOMAIN frame_workers : FrameWorkerGet(w)
    \/ \E w \in DOMAIN frame_workers : FrameWorkerSaved(w)
    \/ \E w \in DOMAIN frame_workers : FrameWorkerExit(w)

\* ---------------------------------------------------------------- shutdown
\* UranEchoHandler.shutdown.  shutdown_pc: "idle" (not called), "video" (at
\* the video_recording_enabled test), "video_wait" (awaiting
\* _stop_video_recording_async), "audio" (at the mode test), "audio_wait"
\* (awaiting _stop_audio_recording_async), "workers" (at the call of
\* _shutdown_async_workers), "done" (returned), "raised" (ended by an
\* exception of an awaited coroutine).
ShutdownStart ==
    /\ shutdown_pc = "idle"
    /\ IF frame_capture_enabled
       THEN StopFrameCapture
       ELSE UNCHANGED <<frame_capture_enabled, frame_capture_task, channel>>
    /\ shutdown_pc' = "video"
    /\ UNCHANGED <<audioVars, videoVars, latest_video_frame, frame_count,
                   frame_save_queue, frame_save_worker_task, frame_workers,
                   saved_frames, capture_ticks, stats, control_count, inputs_left, raised,
                   resolution_warnings, pathVars, managerVars>>

\* await self._stop_video_recording_async(): the coroutine runs inside
\* shutdown up to its first suspension.
ShutdownVideo ==
    /\ shutdown_pc = "video"
    /\ IF video_recording_enabled
       THEN /\ video_recording_enabled' = FALSE
            /\ video_stops' = Append(video_stops, [NewVideoStop EXCEPT !.pc = "drain"])
            /\ shutdown_pc' = "video_wait"
       ELSE /\ shutdown_pc' = "audio"
            /\ UNCHANGED <<video_recording_enabled, video_stops>>
    /\ UNCHANGED <<audioVars, captureVars, video_resolution, video_queue,
                   video_writer, recorded_video_frames, video_recording_queue,
                   video_recording_worker_task, writers, video_workers,
                   video_seq, stats, control_count, inputs_left, write_log, channel, raised,
                   resolution_warnings, pathVars, managerVars>>

\* The awaited stop coroutine is the last one created.
ShutdownVideoWait ==
    /\ shutdown_pc = "video_wait"
    /\ video_stops[Len(video_stops)].pc \in {"done", "failed", "raised"}
    /\ shutdown_pc' = IF video_stops[Len(video_stops)].pc = "raised"
                      THEN "raised" ELSE "audio"
    /\ UNCHANGED <<audioVars, videoVars, captureVars, stats, control_count,
                   inputs_left, channel, raised,
                   resolution_warnings, pathVars, managerVars>>

ShutdownAudio ==
    /\ shutdown_pc = "audio"
    /\ IF mode = "RECORDING"
       THEN /\ mode' = "REPLAYING"
            /\ replay_index' = 0
            /\ audio_stops' = Append(audio_stops, [NewAudioStop EXCEPT !.pc = "drain"])
            /\ shutdown_pc' = "audio_wait"
       ELSE /\ shutdown_pc' = "workers"
            /\ UNCHANGED <<mode, replay_index, audio_stops>>
    /\ UNCHANGED <<videoVars, captureVars, recorded_audio_frames, audio_queue,
                   audio_recording_queue, audio_recording_worker_task,
                   audio_workers, audio_seq, emitOut, stats, control_count,
                   inputs_left, channel, raised,
                   resolution_warnings, pathVars, managerVars>>

ShutdownAudioWait ==
    /\ shutdown_pc = "audio_wait"
    /\ audio_stops[Len(audio_stops)].pc \in {"done", "failed", "raised"}
    /\ shutdown_pc' = IF audio_stops[Len(audio_stops)].pc = "raised"
                      THEN "raised" ELSE "workers"
    /\ UNCHANGED <<audioVars, videoVars, captureVars, stats, control_count,
                   inputs_left, channel, raised,
                   resolution_warnings, pathVars, managerVars>>

\* UranEchoHandler._shutdown_async_workers as written: the tasks collected in
\* tasks_to_cancel are never awaited nor cancelled.  The body of the timed
\* loop is the replay branch of emit: with a frame left in the replay buffer
\* the method returns at once; otherwise it sets LIVE mode, resets the index
\* and loops (returning on the next pass if the buffer is not empty), and
\* after the timeout returns wait_for_item(self.audio_queue).
_shutdown_async_workers ==
    IF replay_index < Len(recorded_audio_frames)
    THEN /\ replay_index' = replay_index + 1
         /\ audio_queue' = <<>>
         /\ UNCHANGED <<mode, emitOut, channel>>
    ELSE /\ mode' = "LIVE"
         /\ channel' = Status("status", "replay_ended")
         /\ IF Len(recorded_audio_frames) > 0
            THEN /\ replay_index' = 1
                 /\ audio_queue' = <<>>
                 /\ UNCHANGED emitOut
            ELSE /\ replay_index' = 0
                 /\ audio_queue' = IF audio_queue = <<>> THEN <<>> ELSE Tail(audio_queue)
                 /\ UNCHANGED emitOut

ShutdownWorkers ==
    /\ shutdown_pc = "workers"
    /\ _shutdown_async_workers
    /\ shutdown_pc' = "done"
    /\ UNCHANGED <<videoVars, captureVars, recorded_audio_frames,
                   audio_recording_queue, audio_recording_worker_task,
                   audio_workers, audio_stops, audio_seq, stats, control_count,
                   inputs_left, raised,
                   resolution_warnings, pathVars, managerVars>>

shutdown ==
    \/ ShutdownStart
    \/ ShutdownVideo
    \/ ShutdownVideoWait
    \/ ShutdownAudio
    \/ ShutdownAudioWait
    \/ ShutdownWorkers

\* ---------------------------------------------------------- specifications
Next ==
    \/ AudioNext
    \/ VideoNext
    \/ CaptureNext
    \/ shutdown
    \/ \E message \in OtherMessages : text_receive(message)

\* The whole handler, at most MaxInputs inputs.
Spec == Init /\ [][Next]_vars

\* The audio pipeline alone.
SpecAudio == Init /\ [][AudioNext]_vars

\* The video recording pipeline alone.
SpecVideo == InitPipeline /\ [][VideoNext]_vars

\* The video recording pipeline with frame writes that may fail.
VideoFaultsNext ==
    \/ VideoNext
    \/ \E w \in DOMAIN video_workers : VideoThreadWriteFails(w)

SpecVideoFaults == InitPipeline /\ [][VideoFaultsNext]_vars

\* Frame capture alone, fed by video_receive.
CaptureOnly ==
    \/ CaptureNext
    \/ \E res \in Resolutions : video_receive(res)

SpecCapture == InitPipeline /\ [][CaptureOnly]_vars

\* The steps the event loop takes by itself: a coroutine that is ready to run
\* is run, and a timer that has expired fires.  Nothing is assumed of the
\* threads of asyncio.to_thread that write batches or save files, nor of the
\* arrival of inputs; the thread that releases the video writer returns.
Fairness ==
    /\ WF_vars(shutdown)
    /\ WF_vars(\E t \in DOMAIN video_stops : VideoStopStart(t))
    /\ WF_vars(\E t \in DOMAIN video_stops : VideoStopDrain(t))
    /\ WF_vars(\E t \in DOMAIN video_stops : VideoStopJoined(t))
    /\ WF_vars(\E t \in DOMAIN video_stops : VideoStopCancelled(t))
    /\ WF_vars(\E t \in DOMAIN video_stops : VideoStopTimeout(t))
    /\ WF_vars(\E t \in DOMAIN video_stops : VideoStopReleased(t))
    /\ WF_vars(\E w \in DOMAIN video_workers : VideoWorkerBatch(w))
    /\ WF_vars(\E w \in DOMAIN video_workers : VideoWorkerExit(w))
    /\ WF_vars(\E t \in DOMAIN audio_stops : AudioStopStart(t))
    /\ WF_vars(\E t \in DOMAIN audio_stops : AudioStopDrain(t))
    /\ WF_vars(\E t \in DOMAIN audio_stops : AudioStopJoined(t))
    /\ WF_vars(\E t \in DOMAIN audio_stops : AudioStopCancelled(t))
    /\ WF_vars(\E t \in DOMAIN audio_stops : AudioStopTimeout(t))
    /\ WF_vars(\E w \in DOMAIN audio_workers : AudioWorkerGet(w))
    /\ WF_vars(\E w \in DOMAIN audio_workers : AudioWorkerTimeout(w))

\* The whole handler with the event loop's scheduling.
FairSpec == Spec /\ Fairness

\* text_receive alone, on every kind of message, fed by video_receive.
ControlNext ==
    \/ \E message \in OtherMessages : text_receive(message)
    \/ start_audio_recording
    \/ stop_audio_recording
    \/ start_frame_capture
    \/ stop_frame_capture
    \/ \E ok \in BOOLEAN : start_video_recording(ok)
    \/ stop_video_recording
    \/ \E res \in Resolutions : video_receive(res)

SpecControl == Init /\ [][ControlNext]_vars

\* ------------------------------------------------------- recording paths
\* The handler instances (one per connection) whose sessions are compared.
Handlers == {1, 2}

\* int(time.time())
Timestamp(t) == t \div TicksPerSecond

\* start_audio_recording: os.path.join(record_audio_dir_path,
\* f"recording_{timestamp}.wav")
AudioFilepath(timestamp) ==
    <<"record_audio_dir_path", "recording", timestamp, "wav">>

\* start_video_recording: os.path.join(video_recordings_dir_path,
\* f"video_{timestamp}.avi")
VideoRecordingPath(timestamp) ==
    <<"video_recordings_dir_path", "video", timestamp, "avi">>

\* Time passes.
Tick ==
    /\ clock < MaxClock
    /\ clock' = clock + 1
    /\ UNCHANGED <<handlerVars, artifacts, managerVars>>

\* Handler h starts an audio recording session: its worker is given filepath.
StartAudioSession(h) ==
    /\ Len(artifacts) < MaxSessions
    /\ artifacts' = Append(artifacts,
            [handler |-> h, path |-> AudioFilepath(Timestamp(clock))])
    /\ UNCHANGED <<handlerVars, clock, managerVars>>

\* Handler h starts a video recording session: its writer opens
\* video_recording_path.
StartVideoSession(h) ==
    /\ Len(artifacts) < MaxSessions
    /\ artifacts' = Append(artifacts,
            [handler |-> h, path |-> VideoRecordingPath(Timestamp(clock))])
    /\ UNCHANGED <<handlerVars, clock, managerVars>>

PathsNext ==
    \/ Tick
    \/ \E h \in Handlers : StartAudioSession(h)
    \/ \E h \in Handlers : StartVideoSession(h)

\* The paths of the recording sessions of the handler instances of a process.
SpecPaths == Init /\ [][PathsNext]_vars

\* Frame capture with the event loop running the save worker's steps and
\* with save threads that return.
FairSpecCapture ==
    /\ SpecCapture
    /\ WF_vars(\E w \in DOMAIN frame_workers : FrameWorkerGet(w))
    /\ WF_vars(\E w \in DOMAIN frame_workers : FrameWorkerSaved(w))
    /\ WF_vars(\E w \in DOMAIN frame_workers : FrameWorkerExit(w))

\* The audio pipeline with emit called again and again by the framework.
FairSpecAudio == SpecAudio /\ WF_vars(emit)

\* ---------------------------------------------------- connection manager
\* websocket/connection_manager.py: the chat server's ConnectionManager and
\* the calls the connection handlers of websocket/server.py make on it.
Usernames == {"alice", "bob"}
Websockets == 1..MaxSockets
RoomNames == {"room"}
NoCall == 0
NoClient == 0

\* Client(client_id, websocket, username): the client id is unique to the
\* websocket that registered, so the model names both by the websocket;
\* connected_at is the order of registration.
NewClient(username, at) ==
    [username |-> username, rooms |-> {}, connected_at |-> at]

\* A call of a ConnectionManager coroutine.  pc: "lock" (waiting in "async
\* with self.lock"), "locked" (holds the lock), "left" (unregister, awaiting
\* the room notifications), "gather" (awaiting the gather of the last
\* broadcast), "done" (returned; the lock is released).  parent is the call
\* whose send_to_client made this call, if any.
NewCall(op, client, username, room, parent) ==
    [op |-> op, client |-> client, username |-> username, room |-> room,
     pc |-> "lock", parent |-> parent]

\* The calls of unregister that send_to_client makes for the targets whose
\* websocket send raises, in the order of gather's argument list.
RECURSIVE Unregisters(_, _)
Unregisters(failing, parent) ==
    IF failing = {}
    THEN <<>>
    ELSE LET client == CHOOSE x \in failing : \A y \in failing : x <= y IN
         <<NewCall("unregister", client, "none", "none", parent)>>
            \o Unregisters(failing \ {client}, parent)

\* send_to_client for every target: the send to a closed websocket raises and
\* the except clause awaits self.unregister(client_id).
SendFailures(targets, closed_now) == targets \cap closed_now

\* The coroutines call c awaits in its gather have all returned.
Gathered(c) ==
    \A d \in DOMAIN calls : calls[d].parent = c => calls[d].pc = "done"

\* The handler of a new connection has read the username and awaits
\* connection_manager.register(websocket, username).
register(ws, username) ==
    /\ Len(calls) < MaxCalls
    /\ \A c \in DOMAIN calls :
            ~(calls[c].op = "register" /\ calls[c].client = ws)
    /\ calls' = Append(calls, NewCall("register", ws, username, "none", NoCall))
    /\ UNCHANGED <<handlerVars, pathVars, clients, username_to_id, rooms, lock,
                   closed, registered>>

\* The peer of a websocket goes away, or the connection breaks.
ConnectionClosed(ws) ==
    /\ ws \notin closed
    /\ closed' = closed \cup {ws}
    /\ UNCHANGED <<handlerVars, pathVars, clients, username_to_id, rooms, lock,
                   calls, registered>>

\* handle_chat_service, finally clause: the handler of a closed connection
\* whose register has returned awaits unregister(client_id); so does
\* send_to_client when the send of a chat message to the client raises.
unregister(ws) ==
    /\ Len(calls) < MaxCalls
    /\ ws \in closed
    /\ \E c \in DOMAIN calls :
            calls[c].op = "register" /\ calls[c].client = ws /\ calls[c].pc = "done"
    /\ calls' = Append(calls, NewCall("unregister", ws, "none", "none", NoCall))
    /\ UNCHANGED <<handlerVars, pathVars, clients, username_to_id, rooms, lock,
                   closed, registered>>

\* MessageHandler.handle_join_room awaits join_room(client_id, room_name).
join_room(ws, room) ==
    /\ Len(calls) < MaxCalls
    /\ ws \in DOMAIN clients
    /\ calls' = Append(calls, NewCall("join_room", ws, "none", room, NoCall))
    /\ UNCHANGED <<handlerVars, pathVars, clients, username_to_id, rooms, lock,
                   closed, registered>>

\* MessageHandler.handle_leave_room awaits leave_room(client_id, room_name).
leave_room(ws, room) ==
    /\ Len(calls) < MaxCalls
    /\ ws \in DOMAIN clients
    /\ calls' = Append(calls, NewCall("leave_room", ws, "none", room, NoCall))
    /\ UNCHANGED <<handlerVars, pathVars, clients, username_to_id, rooms, lock,
                   closed, registered>>

\* async with self.lock: asyncio.Lock is not reentrant; a call acquires it
\* only when no call holds it.
Acquire(c) ==
    /\ calls[c].pc = "lock"
    /\ lock = NoCall
    /\ lock' = c
    /\ calls' = [calls EXCEPT ![c].pc = "locked"]
    /\ UNCHANGED <<handlerVars, pathVars, clients, username_to_id, rooms,
                   closed, registered>>

\* register under the lock, up to the gather of broadcast_system_message: an
\* older client of the same username is sent a notice and its websocket
\* closed (_force_disconnect; it stays in self.clients), the new client is
\* stored, and the broadcast goes to every client but the new one.
RegisterLocked(c) ==
    /\ calls[c].pc = "locked"
    /\ calls[c].op = "register"
    /\ LET ws == calls[c].client
           username == calls[c].username
           old_client_id == IF username \in DOMAIN username_to_id
                            THEN username_to_id[username] ELSE NoClient
           closed_now == IF old_client_id \in DOMAIN clients
                         THEN closed \cup {old_client_id} ELSE closed
           failing == SendFailures(DOMAIN clients, closed_now)
       IN /\ closed' = closed_now
          /\ clients' = [x \in DOMAIN clients \cup {ws} |->
                            IF x = ws THEN NewClient(username, registered + 1)
                            ELSE clients[x]]
          /\ username_to_id' = [u \in DOMAIN username_to_id \cup {username} |->
                                  IF u = username THEN ws ELSE username_to_id[u]]
          /\ registered' = registered + 1
          /\ calls' = [calls EXCEPT ![c].pc = "gather"] \o Unregisters(failing, c)
    /\ UNCHANGED <<handlerVars, pathVars, rooms, lock>>

\* _leave_room_unsafe without its notification: the client leaves the room
\* and an empty room is deleted.
RoomsWithout(client, room) ==
    IF room \notin DOMAIN rooms
    THEN rooms
    ELSE IF rooms[room] \ {client} = {}
         THEN [r \in DOMAIN rooms \ {room} |-> rooms[r]]
         ELSE [rooms EXCEPT ![room] = @ \ {client}]

\* The members a room notification is sent to.
Members(rs, room) == IF room \in DOMAIN rs THEN rs[room] ELSE {}

\* unregister under the lock: an unknown client returns at once; a known one
\* leaves its rooms, each with a notification to the members that remain.
UnregisterLocked(c) ==
    /\ calls[c].pc = "locked"
    /\ calls[c].op = "unregister"
    /\ LET client == calls[c].client IN
       IF client \notin DOMAIN clients
       THEN /\ calls' = [calls EXCEPT ![c].pc = "done"]
            /\ lock' = NoCall
            /\ UNCHANGED <<clients, rooms>>
       ELSE LET left == {r \in clients[client].rooms : r \in DOMAIN rooms}
                rooms_now == IF left = {} THEN rooms
                             ELSE RoomsWithout(client, "room")
                failing == SendFailures(
                               UNION {Members(rooms_now, r) : r \in left}, closed)
            IN /\ rooms' = rooms_now
               /\ clients' = [clients EXCEPT ![client].rooms = @ \ left]
               /\ calls' = [calls EXCEPT ![c].pc = "left"]
                              \o Unregisters(failing, c)
               /\ UNCHANGED lock
    /\ UNCHANGED <<handlerVars, pathVars, username_to_id, closed, registered>>

\* unregister, after the room notifications: the client is deleted, and so
\* is the entry of its username, whatever client that entry names; then the
\* offline message is broadcast to every client that is left.
UnregisterRemove(c) ==
    /\ calls[c].pc = "left"
    /\ Gathered(c)
    /\ LET client == calls[c].client
           username == clients[client].username
           failing == SendFailures(DOMAIN clients \ {client}, closed)
       IN /\ clients' = [x \in DOMAIN clients \ {client} |-> clients[x]]
          /\ username_to_id' =
                [u \in DOMAIN username_to_id \ {username} |-> username_to_id[u]]
          /\ calls' = [calls EXCEPT ![c].pc = "gather"] \o Unregisters(failing, c)
    /\ UNCHANGED <<handlerVars, pathVars, rooms, lock, closed, registered>>

\* join_room under the lock: _join_room_unsafe adds the client and notifies
\* the other members of the room.
JoinRoomLocked(c) ==
    /\ calls[c].pc = "locked"
    /\ calls[c].op = "join_room"
    /\ LET client == calls[c].client
           room == calls[c].room IN
       IF client \notin DOMAIN clients
       THEN /\ calls' = [calls EXCEPT ![c].pc = "done"]
            /\ lock' = NoCall
            /\ UNCHANGED <<clients, rooms>>
       ELSE /\ rooms' = [r \in DOMAIN rooms \cup {room} |->
                            IF r = room THEN Members(rooms, room) \cup {client}
                            ELSE rooms[r]]
            /\ clients' = [clients EXCEPT ![client].rooms = @ \cup {room}]
            /\ calls' = [calls EXCEPT ![c].pc = "gather"]
                           \o Unregisters(SendFailures(
                                  Members(rooms, room) \ {client}, closed), c)
            /\ UNCHANGED lock
    /\ UNCHANGED <<handlerVars, pathVars, username_to_id, closed, registered>>

\* leave_room under the lock: _leave_room_unsafe.
LeaveRoomLocked(c) ==
    /\ calls[c].pc = "locked"
    /\ calls[c].op = "leave_room"
    /\ LET client == calls[c].client
           room == calls[c].room IN
       IF client \notin DOMAIN clients \/ room \notin DOMAIN rooms
       THEN /\ calls' = [calls EXCEPT ![c].pc = "done"]
            /\ lock' = NoCall
            /\ UNCHANGED <<clients, rooms>>
       ELSE /\ rooms' = RoomsWithout(client, room)
            /\ clients' = [clients EXCEPT ![client].rooms = @ \ {room}]
            /\ calls' = [calls EXCEPT ![c].pc = "gather"]
                           \o Unregisters(SendFailures(
                                  Members(RoomsWithout(client, room), room),
                                  closed), c)
            /\ UNCHANGED lock
    /\ UNCHANGED <<handlerVars, pathVars, username_to_id, closed, registered>>

\* The gather of the call's last broadcast returns: the call leaves the
\* "async with" block, which releases the lock, and returns.
Return(c) ==
    /\ calls[c].pc = "gather"
    /\ Gathered(c)
    /\ calls' = [calls EXCEPT ![c].pc = "done"]
    /\ lock' = NoCall
    /\ UNCHANGED <<handlerVars, pathVars, clients, username_to_id, rooms,
                   closed, registered>>

ManagerNext ==
    \/ \E ws \in Websockets, username \in Usernames : register(ws, username)
    \/ \E ws \in Websockets : ConnectionClosed(ws)
    \/ \E ws \in Websockets : unregister(ws)
    \/ \E ws \in Websockets, room \in RoomNames : join_room(ws, room)
    \/ \E ws \in Websockets, room \in RoomNames : leave_room(ws, room)
    \/ \E c \in DOMAIN calls : Acquire(c)
    \/ \E c \in DOMAIN calls : RegisterLocked(c)
    \/ \E c \in DOMAIN calls : UnregisterLocked(c)
    \/ \E c \in DOMAIN calls : UnregisterRemove(c)
    \/ \E c \in DOMAIN calls : JoinRoomLocked(c)
    \/ \E c \in DOMAIN calls : LeaveRoomLocked(c)
    \/ \E c \in DOMAIN calls : Return(c)

\* The connection manager under the calls of the connection handlers.
SpecManager == Init /\ [][ManagerNext]_vars

\* The event loop runs every coroutine that is ready to run.
FairSpecManager ==
    /\ SpecManager
    /\ WF_vars(\E c \in DOMAIN calls : Acquire(c))
    /\ WF_vars(\E c \in DOMAIN calls : RegisterLocked(c))
    /\ WF_vars(\E c \in DOMAIN calls : UnregisterLocked(c))
    /\ WF_vars(\E c \in DOMAIN calls : UnregisterRemove(c))
    /\ WF_vars(\E c \in DOMAIN calls : JoinRoomLocked(c))
    /\ WF_vars(\E c \in DOMAIN calls : LeaveRoomLocked(c))
    /\ WF_vars(\E c \in DOMAIN calls : Return(c))

\* ------------------------------------------------------------------ claims
\* C1: the audio mode changes only LIVE -> RECORDING (on start_record),
\* RECORDING -> REPLAYING (on stop_record) and REPLAYING -> LIVE (when the
\* replay buffer is exhausted); no other mode transition ever occurs.
C1_OnlyValidModeTransitions ==
    [][mode' # mode =>
          \/ /\ mode = "LIVE" /\ mode' = "RECORDING"
             /\ start_audio_recording
          \/ mode = "RECORDING" /\ mode' = "REPLAYING"
          \/ /\ mode = "REPLAYING" /\ mode' = "LIVE"
             /\ replay_index >= Len(recorded_audio_frames)]_vars

\* The worker tasks of each pipeline that have not finished.
LiveAudioWorkers == {w \in DOMAIN audio_workers : AudioWorkerAlive(w)}
LiveVideoWorkers == {w \in DOMAIN video_workers : VideoWorkerAlive(w)}
LiveFrameWorkers ==
    {w \in DOMAIN frame_workers : frame_workers[w].pc \in {"loop", "saving"}}

\* C2: in every reachable state each of the three pipelines has at most one
\* live worker task consuming its queue.
C2_AtMostOneWorker ==
    /\ Cardinality(LiveAudioWorkers) <= 1
    /\ Cardinality(LiveVideoWorkers) <= 1
    /\ Cardinality(LiveFrameWorkers) <= 1

\* C3: the number of frames written to the file of a video recording session
\* is never greater than the number of frames received while that session's
\* recording was enabled.
C3_WrittenAtMostReceived ==
    \A i \in DOMAIN writers : Len(writers[i].file) <= writers[i].received

\* An audio recording session (the one started by the start_record that
\* created worker w) is over: recording has stopped or a later one started.
AudioSessionOver(w) == w < Len(audio_workers) \/ mode # "RECORDING"

\* C4: for every finished audio recording session in which no frame was
\* dropped, the data written to the session's file is the concatenation, in
\* receipt order, of all frames received in RECORDING mode during the session.
C4_FileIsAllFrames ==
    \A w \in DOMAIN audio_workers :
        (AudioSessionOver(w) /\ ~AudioWorkerAlive(w) /\ ~audio_workers[w].dropped)
            => audio_workers[w].file = audio_workers[w].heard
\* C5: mode is always one of LIVE, RECORDING, REPLAYING, and every emit made
\* while REPLAYING with the replay index below the buffer length returns the
\* next frame of the recorded buffer and advances the index by one.
C5_ReplayReturnsRecorded ==
    /\ [](mode \in StreamMode)
    /\ [][(emit /\ mode = "REPLAYING"
                /\ replay_index < Len(recorded_audio_frames))
            => /\ emitOut' = recorded_audio_frames[replay_index + 1]
               /\ replay_index' = replay_index + 1
               /\ recorded_audio_frames' = recorded_audio_frames]_vars

\* C5 witness: the second frame of a two-frame recording has been replayed.
C5_Witness ==
    /\ mode = "REPLAYING"
    /\ replay_index = 2
    /\ Len(recorded_audio_frames) = 2
    /\ emitOut = recorded_audio_frames[2]

\* C6: a stop_record taken while mode is not RECORDING changes nothing of the
\* audio pipeline: mode, replay buffer and index, recording queue, worker
\* task, workers' files, and the set of stop tasks stay as they were.
C6_StopWhenNotRecordingIsNoOp ==
    [][(stop_audio_recording /\ mode # "RECORDING")
          => UNCHANGED <<mode, recorded_audio_frames, replay_index, audio_queue,
                         audio_recording_queue, audio_recording_worker_task,
                         audio_workers, audio_stops, stats, emitOut>>]_vars

\* C6 witness: three control messages, one start_record and two stop_record,
\* and a single stop task: one of the stop_record messages came while not
\* RECORDING; the replay is under way.
C6_Witness ==
    /\ control_count = 3
    /\ Len(audio_workers) = 1
    /\ Len(audio_stops) = 1
    /\ mode = "REPLAYING"
    /\ replay_index >= 1

\* C7: no recording queue ever holds more than its bound; a producer that
\* finds its queue full leaves the queue as it is, adds exactly one to that
\* pipeline's drop counter and (for the receive paths) still appends the frame
\* to the live echo queue; drop counters never decrease.
C7_BoundedQueuesDropNewest ==
    /\ [](/\ Len(video_recording_queue) <= VIDEO_RECORDING_QUEUE_SIZE
          /\ Len(audio_recording_queue) <= AUDIO_RECORDING_QUEUE_SIZE
          /\ Len(frame_save_queue) <= FRAME_SAVE_QUEUE_SIZE)
    /\ [][(/\ video_seq' = video_seq + 1
           /\ video_recording_enabled
           /\ Len(video_recording_queue) >= VIDEO_RECORDING_QUEUE_SIZE)
            => /\ video_recording_queue' = video_recording_queue
               /\ stats' = [stats EXCEPT !.video_dropped_frames = @ + 1]
               /\ Len(video_queue') = Len(video_queue) + 1
               /\ video_queue'[Len(video_queue')].id = video_seq']_vars
    /\ [][(/\ audio_seq' = audio_seq + 1
           /\ mode = "RECORDING"
           /\ Len(audio_recording_queue) >= AUDIO_RECORDING_QUEUE_SIZE)
            => /\ audio_recording_queue' = audio_recording_queue
               /\ stats' = [stats EXCEPT !.audio_dropped_frames = @ + 1]
               /\ audio_queue' = Append(audio_queue, audio_seq')]_vars
    /\ [][(/\ capture_ticks' = capture_ticks + 1
           /\ latest_video_frame # NoVideoFrame
           /\ Len(frame_save_queue) >= FRAME_SAVE_QUEUE_SIZE)
            => /\ frame_save_queue' = frame_save_queue
               /\ stats' = [stats EXCEPT !.frame_save_dropped = @ + 1]]_vars
    /\ [][/\ stats'.video_dropped_frames >= stats.video_dropped_frames
          /\ stats'.audio_dropped_frames >= stats.audio_dropped_frames
          /\ stats'.frame_save_dropped >= stats.frame_save_dropped]_vars

\* C7 witness: a video frame was dropped at a full recording queue and still
\* reached the live echo queue.
C7_Witness ==
    /\ stats.video_dropped_frames = 1
    /\ Len(video_recording_queue) = VIDEO_RECORDING_QUEUE_SIZE
    /\ Len(video_queue) = video_seq
    /\ video_recording_queue[1].id < video_seq
\* C8: video frames are written in the order they were received: the
\* numbers of the frames written so far, in order of writing, increase.
C8_WrittenInReceiptOrder ==
    \A i, j \in DOMAIN write_log : i < j => write_log[i] < write_log[j]

\* C9: when shutdown has returned, no video-record, audio-record or
\* frame-save worker task of the handler is still running.
C9_NoWorkerAfterShutdown ==
    shutdown_pc = "done" =>
        /\ LiveVideoWorkers = {}
        /\ LiveAudioWorkers = {}
        /\ LiveFrameWorkers = {}

C11_StatusAfterWorkerStopped ==
    [][/\ (channel' # channel /\ channel'.message = "capture_stopped")
            => ~frame_capture_enabled' /\ LiveFrameWorkers' = {}
       /\ (channel' # channel /\ channel'.message = "video_stopped")
            => /\ ~video_recording_enabled'
               /\ LiveVideoWorkers' = {}
               /\ video_writer' = NoWriter
       /\ (channel' # channel /\ channel'.message = "record_stopped_replaying")
            => mode' # "RECORDING" /\ LiveAudioWorkers' = {}]_vars
\* C12: the mode changes from RECORDING to REPLAYING only after the save of
\* the session's audio has been requested: at that step the worker of the
\* session that received frames has already handed them to the save thread.
C12_SaveBeforeReplaying ==
    [][(mode = "RECORDING" /\ mode' = "REPLAYING")
          => LET w == audio_workers[Len(audio_workers)] IN
                 w.heard # <<>> => w.saved]_vars
\* C13: with emit called again and again, REPLAYING is always left (for LIVE,
\* or for RECORDING when a start_record arrives); the emit made with the
\* buffer exhausted sets mode LIVE, resets the replay index to 0 and sends
\* the replay-ended status; every other emit in REPLAYING advances the index
\* by one.
C13_ReplayEndsInLive ==
    /\ (mode = "REPLAYING") ~> (mode # "REPLAYING")
    /\ [][(emit /\ mode = "REPLAYING")
            => IF replay_index >= Len(recorded_audio_frames)
               THEN /\ mode' = "LIVE"
                    /\ replay_index' = 0
                    /\ channel' = Status("status", "replay_ended")
               ELSE /\ mode' = "REPLAYING"
                    /\ replay_index' = replay_index + 1]_vars
    /\ [][(mode = "REPLAYING" /\ mode' = "LIVE") => emit]_vars

\* C13 witness: a one-frame recording was replayed to its end and the
\* handler is back in LIVE mode with the replay-ended status sent.
C13_Witness ==
    /\ mode = "LIVE"
    /\ Len(recorded_audio_frames) >= 1
    /\ replay_index = 0
    /\ emitOut = NoFrame
    /\ channel = Status("status", "replay_ended")
\* C14: a start_video_recording or start_frame_capture taken before any video
\* frame has set the resolution sends the not-ready status and changes no
\* other state of the handler; an enabled video recording or frame capture
\* always has a known resolution.
C14_StartBeforeResolutionRejected ==
    /\ [](video_recording_enabled \/ frame_capture_enabled
            => video_resolution # NoResolution)
    /\ [][((\E ok \in BOOLEAN : start_video_recording(ok))
              /\ video_resolution = NoResolution)
            => /\ channel' = Status("video_recording_status", "not_ready")
               /\ UNCHANGED <<audioVars, videoVars, captureVars, stats,
                              shutdown_pc>>]_vars
    /\ [][(start_frame_capture /\ video_resolution = NoResolution)
            => /\ channel' = Status("frame_capture_status", "not_ready")
               /\ UNCHANGED <<audioVars, videoVars, captureVars, stats,
                              shutdown_pc>>]_vars

\* C14 witness: both a start_video_recording and a start_frame_capture were
\* rejected before the first video frame.
C14_Witness ==
    /\ video_resolution = NoResolution
    /\ video_seq = 0
    /\ control_count = 2
    /\ channel = Status("frame_capture_status", "not_ready")
    /\ audio_workers = <<>>
    /\ frame_workers = <<>>
    /\ writers = <<>>
\* C15: text_receive lets no exception escape to the transport, whatever the
\* message, and a message that is malformed or names no known action leaves
\* the handler state unchanged.
C15_TextReceiveNeverRaises ==
    /\ [](raised = "none")
    /\ [][(\E message \in OtherMessages : text_receive(message))
            => UNCHANGED <<audioVars, videoVars, captureVars, stats,
                           shutdown_pc, channel>>]_vars

\* C16: when the video writer cannot be opened, start_video_recording sends a
\* failure status, leaves video_recording_enabled false and creates no worker
\* task, and video frames received while the flag is false are not enqueued
\* for recording.
C16_FailedStartLeavesRecordingOff ==
    /\ [][(start_video_recording(FALSE) /\ ~video_recording_enabled
             /\ video_resolution # NoResolution)
            => /\ channel' = Status("video_recording_status", "start_failed")
               /\ ~video_recording_enabled'
               /\ UNCHANGED <<video_workers, video_recording_worker_task,
                              video_recording_queue, recorded_video_frames>>]_vars
    /\ [][((\E res \in Resolutions : video_receive(res)) /\ ~video_recording_enabled)
            => UNCHANGED <<video_recording_queue, recorded_video_frames>>]_vars

\* A failed start, no worker, and a frame in the echo queue but not in the
\* recording queue.
C16_Witness ==
    /\ channel = Status("video_recording_status", "start_failed")
    /\ ~video_recording_enabled
    /\ video_workers = <<>>
    /\ video_writer # NoWriter
    /\ ~writers[video_writer].opened
    /\ video_seq >= 2
    /\ video_recording_queue = <<>>

\* The number of places in the sequence of received frames where the
\* resolution differs from that of the frame before.
RECURSIVE ResolutionChanges(_)
ResolutionChanges(q) ==
    IF Len(q) < 2
    THEN 0
    ELSE ResolutionChanges(Take(q, Len(q) - 1))
            + (IF q[Len(q)].res # q[Len(q) - 1].res THEN 1 ELSE 0)

\* C17: every frame written to a video recording has the resolution fixed
\* when the recording started; a frame received at another resolution while
\* recording is enqueued like any other and written resized, a warning is
\* logged on each change of resolution, and a recording that loses no frame
\* to a full queue and whose worker ends by itself holds every frame received
\* during it.
C17_WrittenAtStartResolution ==
    /\ [](\A w \in DOMAIN video_workers :
            \A k \in DOMAIN writers[video_workers[w].writer].file :
                writers[video_workers[w].writer].file[k].res
                    = video_workers[w].resolution)
    /\ [][\A res \in Resolutions :
            (video_receive(res) /\ video_recording_enabled
                /\ Len(video_recording_queue) < VIDEO_RECORDING_QUEUE_SIZE)
            => video_recording_queue'
                  = Append(video_recording_queue, VideoFrame(video_seq + 1, res))]_vars
    /\ [][\A w \in DOMAIN video_workers :
            (VideoThreadWrite(w) /\ ~writers[video_workers[w].writer].released)
            => writers'[video_workers[w].writer].file
                 = Append(writers[video_workers[w].writer].file,
                          [id |-> Head(video_workers[w].batch).id,
                           res |-> video_workers[w].resolution])]_vars
    /\ [](resolution_warnings = ResolutionChanges(video_queue))
    /\ [](( /\ Len(video_workers) = 1
            /\ video_workers[1].pc = "done"
            /\ stats.video_dropped_frames = 0)
          => Len(writers[video_workers[1].writer].file)
                = writers[video_workers[1].writer].received)

\* A finished recording started at one resolution that holds two frames, the
\* second received at the other resolution, both at the start resolution.
C17_Witness ==
    /\ Len(video_workers) = 1
    /\ video_workers[1].pc = "done"
    /\ video_workers[1].resolution = 1
    /\ Len(writers[video_workers[1].writer].file) = 2
    /\ Len(video_queue) = 3
    /\ video_queue[3].res = 2
    /\ video_queue[2].res = 1
    /\ \A k \in {1, 2} : writers[video_workers[1].writer].file[k].res = 1
    /\ resolution_warnings = 1

\* C18: every saved still image is stored under a file name of its own: no
\* two saves of frame capture go to the same file, so that k saves leave k
\* files.
C18_EachSaveOwnFile ==
    \A i, j \in DOMAIN saved_frames :
        i < j => saved_frames[i].path # saved_frames[j].path

\* C19: when the stop sequence of a recording during which no audio frame
\* was received ends, the status it sends is a "no audio" status, and no file
\* is written for a handler's first session while it has received no frame.
C19_EmptySessionNoAudioStatus ==
    /\ [][((\E t \in DOMAIN audio_stops :
                /\ audio_stops[t].pc \in {"drain", "join"}
                /\ audio_stops'[t].pc = "done")
            /\ recorded_audio_frames = <<>>)
           => channel' = Status("status", "no_audio")]_vars
    /\ [](Len(audio_workers) = 1 /\ audio_workers[1].heard = <<>>
            => ~audio_workers[1].saved)

\* C20: no two recording sessions, on one handler instance or on two, write
\* to the same file path.
C20_SessionsHaveDistinctPaths ==
    \A i, j \in DOMAIN artifacts :
        i < j => artifacts[i].path # artifacts[j].path

C22_CancelledLeftoversDropped ==
    \A w \in DOMAIN video_workers :
        ( /\ w > 1
          /\ video_workers[w - 1].pc = "cancelled"
          /\ writers[video_workers[w - 1].writer].released
          /\ \A t \in DOMAIN video_stops : video_stops[t].pc = "done" )
        => \A k \in DOMAIN writers[video_workers[w].writer].file :
              writers[video_workers[w].writer].file[k].id
                  > writers[video_workers[w].writer].since

\* C23: a frame-save worker leaves its loop only when the capture flag is
\* false and its queue is empty, and once stop_frame_capture has cleared the
\* flag every worker still running drains the queue and ends by itself,
\* whatever control messages follow.
C23_WorkerExitsAfterFlagCleared ==
    /\ [][\A w \in DOMAIN frame_workers :
            (frame_workers[w].pc # "done" /\ frame_workers'[w].pc = "done")
            => ~frame_capture_enabled /\ frame_save_queue = <<>>]_vars
    /\ \A w \in 1..MaxControl :
          (w \in DOMAIN frame_workers /\ ~frame_capture_enabled
              /\ frame_workers[w].pc # "done")
          ~> (w \in DOMAIN frame_workers /\ frame_workers[w].pc = "done")

\* C24: a start_video_recording received while video recording is enabled,
\* and a start_frame_capture received while frame capture is enabled, is
\* ignored: no writer, worker or capture task is created, nothing is sent, and
\* writer, counters and queues stay as they are.
C24_StartWhileEnabledIgnored ==
    /\ [][((\E ok \in BOOLEAN : start_video_recording(ok)) /\ video_recording_enabled)
            => UNCHANGED <<audioVars, videoVars, captureVars, stats,
                           shutdown_pc, channel, raised>>]_vars
    /\ [][(start_frame_capture /\ frame_capture_enabled)
            => UNCHANGED <<audioVars, videoVars, captureVars, stats,
                           shutdown_pc, channel, raised>>]_vars

\* Both pipelines enabled, each started once, after four control messages of
\* which none was sent to the audio pipeline or raised.
C24_Witness ==
    /\ video_recording_enabled
    /\ frame_capture_enabled
    /\ control_count = 4
    /\ Len(writers) = 1
    /\ Len(video_workers) = 1
    /\ Len(frame_workers) = 1
    /\ video_stops = <<>>
    /\ channel # NoMessage
    /\ raised = "none"

\* C25: the video writer is never released while a batch write handed to a
\* thread is still executing against it: when a writer is released, no write
\* thread holds frames it has still to write to that writer.
C25_NoReleaseDuringWrite ==
    [][\A i \in DOMAIN writers :
          (~writers[i].released /\ writers'[i].released)
          => \A w \in DOMAIN video_workers :
                video_workers[w].writer = i => video_workers[w].batch = <<>>]_vars

\* C26: whenever video_recording_enabled is true, self.video_writer is an open
\* writer that has not been released and self.video_recording_worker_task is
\* a running worker bound to that writer; the stop sequence of an earlier
\* recording never releases the new writer or cancels the new worker.
C26_EnabledImpliesWriterAndWorker ==
    video_recording_enabled =>
        /\ video_writer # NoWriter
        /\ writers[video_writer].opened
        /\ ~writers[video_writer].released
        /\ video_recording_worker_task # NoTask
        /\ VideoWorkerAlive(video_recording_worker_task)
        /\ video_workers[video_recording_worker_task].writer = video_writer

\* C27: the frame count in the final video_recording_status message of a stop
\* sequence equals the number of frames written to the file of the recording
\* it ends, that is of the writer it has released.
C27_ReportedCountIsWritten ==
    [][\A t \in DOMAIN video_stops :
          (video_stops[t].pc = "releasing" /\ video_stops'[t].pc = "done")
          => /\ channel'.message = "video_stopped"
             /\ channel'.count = Len(writers'[video_stops[t].rel].file)]_vars

\* C28: in RECORDING mode the replay buffer and the audio-recording queue
\* receive the same frames, and for a completed audio recording session (the
\* handler is replaying it and the session's worker has ended) the frames emit
\* replays, that is the replay buffer, are the frames written to the
\* session's audio file.
C28_ReplayIsFile ==
    /\ [][(receive /\ mode = "RECORDING")
            => /\ recorded_audio_frames' = Append(recorded_audio_frames, audio_seq')
               /\ audio_recording_queue' = Append(audio_recording_queue, audio_seq')]_vars
    /\ []((mode = "REPLAYING" /\ audio_workers # <<>>
            /\ ~AudioWorkerAlive(Len(audio_workers)))
          => audio_workers[Len(audio_workers)].file = recorded_audio_frames)
\* C29: register, unregister, join_room and leave_room always eventually
\* return and release the manager's lock, also when a websocket send fails
\* during the notification broadcast they perform while holding the lock:
\* every call of a manager coroutine that was made returns, and a lock that
\* is held is released.
C29_CallsReturnAndReleaseLock ==
    /\ \A c \in 1..(MaxCalls + MaxSockets) :
            (c \in DOMAIN calls) ~> (c \in DOMAIN calls /\ calls[c].pc = "done")
    /\ (lock # NoCall) ~> (lock = NoCall)

\* The registered clients whose username is u.
C30_Holders(u) == {x \in DOMAIN clients : clients[x].username = u}

\* username_to_id and clients agree: a username has an entry iff some
\* registered client has it, and the entry names the client of that username
\* that registered last.
C30_Consistent ==
    \A u \in Usernames :
        /\ (u \in DOMAIN username_to_id) <=> (C30_Holders(u) # {})
        /\ u \in DOMAIN username_to_id =>
              /\ username_to_id[u] \in C30_Holders(u)
              /\ \A y \in C30_Holders(u) :
                     clients[y].connected_at
                        <= clients[username_to_id[u]].connected_at

\* A second login stored its client while the older client of the same
\* username, force-disconnected by it, is still registered.
C30_SecondLogin ==
    \E old \in DOMAIN clients, new \in DOMAIN clients :
        /\ clients[old].username = clients[new].username
        /\ clients[old].connected_at < clients[new].connected_at
        /\ old \in closed

\* The older connection of a second login has been unregistered and the
\* entry of the username names the client that logged in last.
C30_OlderUnregistered ==
    /\ ~C30_SecondLogin
    /\ C30_Consistent

====
